---- MODULE Spec2Model ----
(***************************************************************************)
(* A model of the pythagoras agent orchestration core:                     *)
(*   - PlanExecuteAgent (createPlan, parsePlan, executePlan, executeStep,  *)
(*     generateSummary, generatePatches, run),                             *)
(*   - GitHubMemoryManager (loadMessages, getMessages, addMessage, clear), *)
(*   - ToolsManager (initialize, connectToServer, callTool, cleanup), in   *)
(*     both variants the repository holds,                                 *)
(*   - the entry point run of the action.                                  *)
(* Every awaited call of the code is one step of the model; the outcome of *)
(* a collaborator (model completion, issue thread, tool server) is drawn   *)
(* with \E from the outcomes it can have: a value, or an exception.        *)
(* SpecAgent, SpecMemory, SpecTools and SpecRun each drive one of the four *)
(* from its own caller.                                                    *)
(***************************************************************************)
EXTENDS Integers, Sequences, FiniteSets, TLC

\* ---------------------------------------------------------------- bounds
MaxSteps == 2
MaxPatches == 1
MaxGitPatches == 2
MaxLoads == 2
MaxComments == 2
MaxAppends == 1
MaxText == 3
MaxRuns == 2
MaxQueries == 3
NumServers == 2

VARIABLES
    \* GitHubMemoryManager
    messages,       \* this.messages: the in-memory history
    comments,       \* the issue's comment thread on the hosting platform
    loads,          \* explicit loadMessages calls made so far
    tokenType,      \* the type of the account behind the token the memory posts with
    \* PlanExecuteAgent.run
    agentPc,        \* where run / createPlan / executePlan stands
    plan,           \* the plan parsePlan returned
    stepIdx,        \* position of the for-loop of executePlan in plan.steps
    results,        \* the local results array of executePlan
    execResult,     \* the value executePlan returned
    cpOutcome,      \* createPlan: "none" | "returned" | "raised"
    exOutcome,      \* executePlan: "none" | "returned" | "raised"
    raisedBy,       \* the call whose exception escaped, "none" if none did
    attempted,      \* positions whose executeStep model call was made
    modelRaised,    \* positions whose executeStep model call raised
    planContent,    \* the completion text createPlan handed to parsePlan
    patchContent,   \* the completion text generatePatches parsed
    \* ToolsManager
    variant,        \* which initialize / connectToServer the build holds
    advertises,     \* what each tool server answers to listTools
    clients,        \* this.clients: whether the map holds a client for the server
    tools,          \* this.tools: server -> cached catalog
    toolsOrder,     \* insertion order of the keys of this.tools
    leaked,         \* a session is open that a later client replaced in this.clients
    failedOpen,     \* servers whose last connectToServer raised
    tmPc,           \* "idle" | "init": initialize is iterating
    initQueue,      \* descriptors initialize has still to visit
    initOutcome,    \* last initialize: "none" | "returned" | "raised"
    initError,      \* the error the last initialize raised, "none" if it raised none
    lastCall,       \* the callTool made last, since the maps last changed
    closeLog,       \* the cleanup made last, since the last initialize
    \* the caller of GitHubMemoryManager
    memOp,          \* the public operation of the memory made last, and how it ended
    hasRead,        \* getMessages was called on this memory
    appends,        \* addMessage calls made by the owner of the memory
    \* the entry point run
    runPc,          \* where run stands; "off" when the entry point is not running
    runResult,      \* result.patches of the ExecutionResult agent.run returned
    setFailed,      \* calls of core.setFailed
    outputs,        \* the outputs set by core.setOutput
    \* the single-call run of src/index.ts and render/index.ts
    inputs,         \* process.env.GITHUB_TOKEN and what core.getInput answers
    legacyPc,       \* where that run stands; "off" when it is not running
    modelResp,      \* modelResp.patches
    outputValues,   \* the values core.setOutput gave to pr_number and applied
    platformOps,    \* the calls made on the hosting platform through octokit
    \* escapeTemplateSyntax and the template built from its result
    rawText,        \* the text handed to escapeTemplateSyntax
    escapedText,    \* what escapeTemplateSyntax returned
    rendered,       \* what formatting the template built from escapedText gave
    \* the repository on the hosting platform, GitService and PRManager
    baseFiles,      \* the files of the base branch
    repoBranches,   \* the proposal branches that exist
    branchFiles,    \* the files at the head of each proposal branch
    openPRs,        \* the open pull requests whose head is the branch
    gitPc,          \* where the proposal flow stands; "off" when none is running
    gitBranch,      \* the branch name the flow works on
    gitPatches,     \* the patches handed to the flow
    gitRuns,        \* flows started so far
    applied,        \* createPR: the positions of the patches applied, in order
    linked,         \* createPR: the linking comment was posted
    \* the ToolsManager built on MultiServerMCPClient
    adTools,        \* this.tools: undefined, or the cached catalog
    serverTools,    \* what the servers answer to client.getTools() now
    adQueries,      \* calls of client.getTools() made so far
    adLast          \* the getTools or cleanup made last, and what it returned

memVars == <<messages, comments, loads, tokenType>>
agentVars == <<agentPc, plan, stepIdx, results, execResult, cpOutcome, exOutcome,
               raisedBy, attempted, modelRaised, planContent, patchContent>>
toolVars == <<variant, advertises, clients, tools, toolsOrder, leaked, failedOpen,
              tmPc, initQueue, initOutcome, initError, lastCall, closeLog>>
memLog == <<memOp, hasRead, appends>>
runVars == <<runPc, runResult, setFailed, outputs>>
legacyVars == <<inputs, legacyPc, modelResp, outputValues, platformOps>>
templateVars == <<rawText, escapedText, rendered>>
gitVars == <<baseFiles, repoBranches, branchFiles, openPRs, gitPc, gitBranch, gitPatches,
             gitRuns, applied, linked>>
adapterVars == <<adTools, serverTools, adQueries, adLast>>
vars == <<memVars, agentVars, toolVars, memLog, runVars, legacyVars, templateVars, gitVars, adapterVars>>

\* ------------------------------------------------------- GitHubMemoryManager

\* A message of this.messages: role is _getType(), kind says which text it holds.
Msg(role, kind, step) == [role |-> role, kind |-> kind, step |-> step]

\* A comment of the thread: the author's type (comment.user?.type, "none" when
\* the comment has no user) and how its body begins (comment.body || ''): with
\* '[Pythagoras]', with the robot emoji, with other text ("none"), or with nothing
\* at all ("empty").
Comment(authorType, marker) == [authorType |-> authorType, marker |-> marker]

IssueMessage == Msg("human", "issue", 0)

NoOp == [op |-> "none", arg |-> "none", outcome |-> "none"]

\* The memory after construction.
MemoryInit ==
    /\ messages = <<>>
    /\ loads = 0
    /\ memOp = NoOp
    /\ hasRead = FALSE
    /\ appends = 0

\* The comments an issue can hold: written by a user with no marker, by a user
\* with one of the two markers isBot looks for, or by a bot. The threads the memory
\* is opened on are the sequences of them.
CommentKinds ==
    {Comment("User", m) : m \in {"none", "pythagoras", "robot"}} \cup {Comment("Bot", "none")}
Threads == UNION {[1..n -> CommentKinds] : n \in 0..MaxComments}

AuthorTypes == {"User", "Bot", "none"}
BodyMarkers == {"none", "empty", "pythagoras", "robot"}

\* isBot of loadMessages looking at the author only.
isBotAuthorOnly(c) == c.authorType = "Bot"

\* isBot of loadMessages
isBot(c) == c.authorType = "Bot" \/ c.marker = "pythagoras" \/ c.marker = "robot"

\* The loop of loadMessages going through comments.data from its end.
RECURSIVE parseCommentsNewestFirst(_)
parseCommentsNewestFirst(cs) ==
    IF cs = <<>> THEN <<>>
    ELSE <<Msg(IF isBot(cs[Len(cs)]) THEN "ai" ELSE "human", "comment", 0)>>
         \o parseCommentsNewestFirst(SubSeq(cs, 1, Len(cs) - 1))

RECURSIVE parseComments(_)
parseComments(cs) ==
    IF cs = <<>> THEN <<>>
    ELSE <<Msg(IF isBot(Head(cs)) THEN "ai" ELSE "human", "comment", 0)>>
         \o parseComments(Tail(cs))

\* The accounts a token can stand for: a user, or an app such as the workflow's
\* own github-actions[bot].
TokenTypes == {"User", "Bot"}

\* What createComment posts for a message: the prefix of an ai message begins
\* with the robot emoji, and the author of the comment is the account behind the
\* token.
postedComment(m) ==
    Comment(tokenType, IF m.role = "ai" THEN "robot" ELSE "none")

\* ------------------------------------------------------- PlanExecuteAgent

NoPlan == [objective |-> "none", reasoning |-> "none", stepsIsArray |-> TRUE, steps |-> <<>>]
NoResult == [returned |-> FALSE, plan |-> NoPlan, results |-> <<>>,
             summary |-> [completed |-> 0, total |-> 0],
             patches |-> [isArray |-> TRUE, items |-> <<>>]]

PlanStep(n, c) ==
    [step |-> n, action |-> "model action", reasoning |-> "model reasoning", completed |-> c]

\* The steps arrays a completion can hold: any step numbers, any flags.
StepElems == {PlanStep(n, c) : n \in 1..MaxSteps, c \in BOOLEAN}
StepArrays == UNION {[1..n -> StepElems] : n \in 0..MaxSteps}

\* A completion text of the planning call, by what JSON.parse makes of it.
\*   garbage       text that is no JSON
\*   braceGarbage  text from { to } that is no JSON
\*   null          the JSON null
\*   scalar        a JSON number, string, boolean or array
\*   object        a JSON object; stepsKind says what its steps field holds
Body(kind, hasObjective, stepsKind, steps) ==
    [kind |-> kind, hasObjective |-> hasObjective, stepsKind |-> stepsKind, steps |-> steps]
GarbageBody == Body("garbage", FALSE, "absent", <<>>)
PlanBodies ==
    {Body(k, FALSE, "absent", <<>>) : k \in {"garbage", "braceGarbage", "null", "scalar"}}
    \cup {Body("object", o, k, <<>>) : o \in BOOLEAN, k \in {"absent", "falsy", "nonArray"}}
    \cup {Body("object", o, "array", s) : o \in BOOLEAN, s \in StepArrays}
PlanContents == {[fenced |-> f, body |-> b] : f \in BOOLEAN, b \in PlanBodies}

\* content.match(/```(?:json)?\s*(\{[\s\S]*\})\s*```/): the fence is stripped only
\* around text from { to }; any other fenced text is parsed with its fence.
extractJson(content) ==
    IF content.fenced
    THEN IF content.body.kind \in {"object", "braceGarbage"} THEN content.body ELSE GarbageBody
    ELSE content.body

\* JSON.parse throws
jsonThrows(body) == body.kind \in {"garbage", "braceGarbage"}

DefaultPlan ==
    [objective |-> "Failed to parse objective",
     reasoning |-> "Error parsing plan from LLM response",
     stepsIsArray |-> TRUE,
     steps |-> <<[step |-> 1, action |-> "Manual intervention required",
                  reasoning |-> "Could not parse automated plan", completed |-> FALSE]>>]

\* parsePlan with a catch block that returns a plan without the default step.
parsePlanNoFallback(content) ==
    LET body == extractJson(content) IN
    [objective |-> IF body.kind = "object" /\ body.hasObjective
                   THEN "model objective" ELSE "Unknown objective",
     reasoning |-> IF body.kind = "object" THEN "model reasoning" ELSE "",
     stepsIsArray |-> ~(body.kind = "object" /\ body.stepsKind = "nonArray"),
     steps |-> IF body.kind = "object" /\ body.stepsKind = "array"
               THEN body.steps ELSE <<>>]

parsePlan(content) ==
    LET body == extractJson(content) IN
    IF jsonThrows(body) \/ body.kind = "null"
    THEN DefaultPlan     \* null: parsed.objective throws inside the try
    ELSE [objective |-> IF body.kind = "object" /\ body.hasObjective
                        THEN "model objective" ELSE "Unknown objective",
          reasoning |-> IF body.kind = "object" THEN "model reasoning" ELSE "",
          stepsIsArray |-> ~(body.kind = "object" /\ body.stepsKind = "nonArray"),
          steps |-> IF body.kind = "object" /\ body.stepsKind = "array"
                    THEN body.steps ELSE <<>>]

\* A completion text of the patch call, by what JSON.parse makes of it.
PatchContents ==
    {[kind |-> k, n |-> 0] : k \in {"garbage", "null", "nonArray"}}
    \cup {[kind |-> "array", n |-> n] : n \in 0..MaxPatches}

FilePatch(i) == [file |-> i, action |-> "create"]

\* the try / catch that ends generatePatches
parsePatches(content) ==
    IF content.kind \in {"garbage", "null"}
    THEN [isArray |-> TRUE, items |-> <<>>]    \* null: patches.length throws inside the try
    ELSE IF content.kind = "array"
    THEN [isArray |-> TRUE, items |-> [i \in 1..content.n |-> FilePatch(i)]]
    ELSE [isArray |-> FALSE, items |-> <<>>]

StepResult(n, ok, output, error) ==
    [step |-> n, success |-> ok, output |-> output, error |-> error]

RECURSIVE successCount(_)
successCount(rs) ==
    IF rs = <<>> THEN 0
    ELSE (IF Head(rs).success THEN 1 ELSE 0) + successCount(Tail(rs))

generateSummary(rs) == [completed |-> successCount(rs), total |-> Len(rs)]

\* addMessage: the push, then createComment, which returns or raises.
addAIMessage(kind, step, posted) ==
    /\ messages' = Append(messages, Msg("ai", kind, step))
    /\ comments' = IF posted THEN Append(comments, postedComment(Msg("ai", kind, step)))
                   ELSE comments
    /\ loads' = loads
    /\ tokenType' = tokenType

agentRaise(by) ==
    /\ agentPc' = "done"
    /\ raisedBy' = by

\* this.messages after the body of loadMessages: issues.get and listComments
\* returned ("all"), listComments raised after the issue was pushed
\* ("issueOnly"), or issues.get raised ("nothing").
loaded(got) ==
    CASE got = "all" -> messages \o <<IssueMessage>> \o parseComments(comments)
      [] got = "issueOnly" -> Append(messages, IssueMessage)
      [] OTHER -> messages

\* loadMessages, called by the owner of the memory.
loadMessages ==
    /\ agentPc = "idle"
    /\ loads < MaxLoads
    /\ loads' = loads + 1
    /\ \E got \in {"all", "issueOnly", "nothing"} :
         /\ messages' = loaded(got)
         /\ memOp' = [op |-> "loadMessages", arg |-> "none",
                      outcome |-> IF got = "all" THEN "returned" ELSE "raised"]
    /\ UNCHANGED <<comments, tokenType, hasRead, appends, agentVars, toolVars, runVars, legacyVars, templateVars, gitVars, adapterVars>>

\* getMessages that loads whether or not this.messages holds anything.
getMessagesAlwaysLoad ==
    /\ agentPc = "idle"
    /\ hasRead' = TRUE
    /\ \E got \in {"all", "issueOnly", "nothing"} :
         /\ messages' = loaded(got)
         /\ memOp' = [op |-> "getMessages", arg |-> "none",
                      outcome |-> IF got = "all" THEN "returned" ELSE "raised"]
    /\ UNCHANGED <<comments, tokenType, loads, appends, agentVars, toolVars, runVars, legacyVars, templateVars, gitVars, adapterVars>>

\* getMessages, called by the owner of the memory: loadMessages when this.messages
\* is empty, then this.messages is returned.
getMessages ==
    /\ agentPc = "idle"
    /\ hasRead' = TRUE
    /\ IF messages # <<>>
       THEN /\ memOp' = [op |-> "getMessages", arg |-> "none", outcome |-> "returned"]
            /\ UNCHANGED messages
       ELSE \E got \in {"all", "issueOnly", "nothing"} :
              /\ messages' = loaded(got)
              /\ memOp' = [op |-> "getMessages", arg |-> "none",
                           outcome |-> IF got = "all" THEN "returned" ELSE "raised"]
    /\ UNCHANGED <<comments, tokenType, loads, appends, agentVars, toolVars, runVars, legacyVars, templateVars, gitVars, adapterVars>>

\* addMessage, addUserMessage and addAIMessage, called by the owner of the memory:
\* the push, then createComment, which returns or raises.
addMessage ==
    /\ agentPc = "idle"
    /\ appends < MaxAppends
    /\ appends' = appends + 1
    /\ \E role \in {"human", "ai"}, posted \in BOOLEAN :
         /\ messages' = Append(messages, Msg(role, "appended", 0))
         /\ comments' = IF posted
                        THEN Append(comments, postedComment(Msg(role, "appended", 0)))
                        ELSE comments
         /\ memOp' = [op |-> "addMessage", arg |-> role,
                      outcome |-> IF posted THEN "returned" ELSE "raised"]
    /\ UNCHANGED <<tokenType, loads, hasRead, agentVars, toolVars, runVars, legacyVars, templateVars, gitVars, adapterVars>>

\* clear: the warning, then this.messages = [].
clear ==
    /\ agentPc = "idle"
    /\ messages' = <<>>
    /\ memOp' = [op |-> "clear", arg |-> "none", outcome |-> "returned"]
    /\ UNCHANGED <<comments, tokenType, loads, hasRead, appends, agentVars, toolVars, runVars, legacyVars, templateVars, gitVars, adapterVars>>

\* run -> createPlan, up to the await of memory.getMessages().
createPlanHistory ==
    /\ agentPc = "idle"
    /\ \/ /\ messages # <<>>
          /\ agentPc' = "cp_model"
          /\ UNCHANGED <<messages, raisedBy, cpOutcome>>
       \/ /\ messages = <<>>
          /\ \/ /\ messages' = <<IssueMessage>> \o parseComments(comments)
                /\ agentPc' = "cp_model"
                /\ UNCHANGED <<raisedBy, cpOutcome>>
             \/ /\ \E partial \in BOOLEAN :
                      messages' = IF partial THEN <<IssueMessage>> ELSE <<>>
                /\ agentRaise("memoryRead")
                /\ cpOutcome' = "raised"
    /\ UNCHANGED <<comments, tokenType, loads, plan, stepIdx, results, execResult, exOutcome,
                   attempted, modelRaised, planContent, patchContent, toolVars, memLog, runVars, legacyVars, templateVars, gitVars, adapterVars>>

\* createPlan: chain.invoke, parsePlan, and the rendering of the plan summary.
createPlanModel ==
    /\ agentPc = "cp_model"
    /\ \/ /\ agentRaise("planModel")
          /\ cpOutcome' = "raised"
          /\ UNCHANGED <<plan, planContent>>
       \/ \E content \in PlanContents :
            /\ planContent' = content
            /\ plan' = parsePlan(content)
            /\ IF parsePlan(content).stepsIsArray
               THEN /\ agentPc' = "cp_save"
                    /\ UNCHANGED <<raisedBy, cpOutcome>>
               ELSE /\ agentRaise("planRender")    \* plan.steps.map is not a function
                    /\ cpOutcome' = "raised"
    /\ UNCHANGED <<memVars, stepIdx, results, execResult, exOutcome, attempted,
                   modelRaised, patchContent, toolVars, memLog, runVars, legacyVars, templateVars, gitVars, adapterVars>>

\* createPlan: memory.addAIMessage of the plan summary, then return plan.
createPlanSave ==
    /\ agentPc = "cp_save"
    /\ \E posted \in BOOLEAN :
         /\ addAIMessage("plan", 0, posted)
         /\ IF posted
            THEN /\ cpOutcome' = "returned"
                 /\ agentPc' = "ex_step"
                 /\ stepIdx' = 1
                 /\ UNCHANGED raisedBy
            ELSE /\ cpOutcome' = "raised"
                 /\ agentRaise("planSave")
                 /\ UNCHANGED stepIdx
    /\ UNCHANGED <<plan, results, execResult, exOutcome, attempted, modelRaised,
                   planContent, patchContent, toolVars, memLog, runVars, legacyVars, templateVars, gitVars, adapterVars>>

\* executeStep whose caller goes on to the next step without the memory entry.
executeStepNoAwait ==
    /\ agentPc = "ex_step"
    /\ stepIdx <= Len(plan.steps)
    /\ attempted' = attempted \cup {stepIdx}
    /\ \/ /\ results' = Append(results, StepResult(plan.steps[stepIdx].step, TRUE, "response", ""))
          /\ agentPc' = "ex_step"
          /\ stepIdx' = stepIdx + 1
          /\ UNCHANGED modelRaised
       \/ /\ results' = Append(results, StepResult(plan.steps[stepIdx].step, FALSE, "", "model error"))
          /\ agentPc' = "ex_catch"
          /\ modelRaised' = modelRaised \cup {stepIdx}
          /\ UNCHANGED stepIdx
    /\ UNCHANGED <<memVars, plan, execResult, cpOutcome, exOutcome, raisedBy,
                   planContent, patchContent, toolVars, memLog, runVars, legacyVars, templateVars, gitVars, adapterVars>>

\* executeStep marking the step it completed in the plan.
executeStepMarking ==
    /\ agentPc = "ex_step"
    /\ stepIdx <= Len(plan.steps)
    /\ attempted' = attempted \cup {stepIdx}
    /\ \/ /\ results' = Append(results, StepResult(plan.steps[stepIdx].step, TRUE, "response", ""))
          /\ agentPc' = "ex_mem"
          /\ plan' = [plan EXCEPT !.steps[stepIdx].completed = TRUE]
          /\ UNCHANGED modelRaised
       \/ /\ results' = Append(results, StepResult(plan.steps[stepIdx].step, FALSE, "", "model error"))
          /\ agentPc' = "ex_catch"
          /\ modelRaised' = modelRaised \cup {stepIdx}
          /\ UNCHANGED plan
    /\ UNCHANGED <<memVars, stepIdx, execResult, cpOutcome, exOutcome, raisedBy,
                   planContent, patchContent, toolVars, memLog, runVars, legacyVars, templateVars, gitVars, adapterVars>>

\* executePlan: the try block up to results.push: executeStep returns or raises.
executeStep ==
    /\ agentPc = "ex_step"
    /\ stepIdx <= Len(plan.steps)
    /\ attempted' = attempted \cup {stepIdx}
    /\ \/ /\ results' = Append(results, StepResult(plan.steps[stepIdx].step, TRUE, "response", ""))
          /\ agentPc' = "ex_mem"
          /\ UNCHANGED modelRaised
       \/ /\ results' = Append(results, StepResult(plan.steps[stepIdx].step, FALSE, "", "model error"))
          /\ agentPc' = "ex_catch"
          /\ modelRaised' = modelRaised \cup {stepIdx}
    /\ UNCHANGED <<memVars, plan, stepIdx, execResult, cpOutcome, exOutcome, raisedBy,
                   planContent, patchContent, toolVars, memLog, runVars, legacyVars, templateVars, gitVars, adapterVars>>

\* executePlan: the addAIMessage of the try block; when it raises, the catch block
\* pushes a failed StepResult.
executePlanRecord ==
    /\ agentPc = "ex_mem"
    /\ \E posted \in BOOLEAN :
         /\ addAIMessage("stepDone", plan.steps[stepIdx].step, posted)
         /\ IF posted
            THEN /\ stepIdx' = stepIdx + 1
                 /\ agentPc' = "ex_step"
                 /\ UNCHANGED results
            ELSE /\ results' = Append(results,
                        StepResult(plan.steps[stepIdx].step, FALSE, "", "comment error"))
                 /\ agentPc' = "ex_catch"
                 /\ UNCHANGED stepIdx
    /\ UNCHANGED <<plan, execResult, cpOutcome, exOutcome, raisedBy, attempted,
                   modelRaised, planContent, patchContent, toolVars, memLog, runVars, legacyVars, templateVars, gitVars, adapterVars>>

\* executePlan: the addAIMessage of the catch block, outside any try.
executePlanCatch ==
    /\ agentPc = "ex_catch"
    /\ \E posted \in BOOLEAN :
         /\ addAIMessage("stepFailed", plan.steps[stepIdx].step, posted)
         /\ IF posted
            THEN /\ stepIdx' = stepIdx + 1
                 /\ agentPc' = "ex_step"
                 /\ UNCHANGED <<raisedBy, exOutcome>>
            ELSE /\ agentRaise("stepMemory")
                 /\ exOutcome' = "raised"
                 /\ UNCHANGED stepIdx
    /\ UNCHANGED <<plan, results, execResult, cpOutcome, attempted, modelRaised,
                   planContent, patchContent, toolVars, memLog, runVars, legacyVars, templateVars, gitVars, adapterVars>>

\* generatePatches with JSON.parse outside the try block.
generatePatchesUncaught ==
    /\ agentPc = "ex_step"
    /\ stepIdx > Len(plan.steps)
    /\ \/ /\ agentRaise("patchModel")
          /\ exOutcome' = "raised"
          /\ UNCHANGED <<execResult, patchContent>>
       \/ \E content \in PatchContents :
            /\ patchContent' = content
            /\ IF content.kind \in {"garbage", "null"}
               THEN /\ agentRaise("patchParse")
                    /\ exOutcome' = "raised"
                    /\ UNCHANGED execResult
               ELSE /\ execResult' = [returned |-> TRUE, plan |-> plan, results |-> results,
                                      summary |-> generateSummary(results),
                                      patches |-> parsePatches(content)]
                    /\ exOutcome' = "returned"
                    /\ agentPc' = "done"
                    /\ UNCHANGED raisedBy
    /\ UNCHANGED <<memVars, plan, stepIdx, results, cpOutcome, attempted, modelRaised,
                   planContent, toolVars, memLog, runVars, legacyVars, templateVars, gitVars, adapterVars>>

\* executePlan after the loop: generateSummary, generatePatches, the return.
generatePatches ==
    /\ agentPc = "ex_step"
    /\ stepIdx > Len(plan.steps)
    /\ \/ /\ agentRaise("patchModel")
          /\ exOutcome' = "raised"
          /\ UNCHANGED <<execResult, patchContent>>
       \/ \E content \in PatchContents :
            /\ patchContent' = content
            /\ execResult' = [returned |-> TRUE, plan |-> plan, results |-> results,
                              summary |-> generateSummary(results),
                              patches |-> parsePatches(content)]
            /\ exOutcome' = "returned"
            /\ agentPc' = "done"
            /\ UNCHANGED raisedBy
    /\ UNCHANGED <<memVars, plan, stepIdx, results, cpOutcome, attempted, modelRaised,
                   planContent, toolVars, memLog, runVars, legacyVars, templateVars, gitVars, adapterVars>>

NoContent == [fenced |-> FALSE, body |-> Body("none", FALSE, "absent", <<>>)]
NoPatchContent == [kind |-> "none", n |-> 0]

AgentInit ==
    /\ agentPc = "idle"
    /\ plan = NoPlan
    /\ stepIdx = 0
    /\ results = <<>>
    /\ execResult = NoResult
    /\ cpOutcome = "none"
    /\ exOutcome = "none"
    /\ raisedBy = "none"
    /\ attempted = {}
    /\ modelRaised = {}
    /\ planContent = NoContent
    /\ patchContent = NoPatchContent

\* ------------------------------------------------------------ ToolsManager

Servers == 1..NumServers
ToolNames == {"read_file", "write_file"}

NoCall == [name |-> "none", server |-> 0, outcome |-> "none"]

\* No cleanup made yet.
NoClose == [attempted |-> {}, raised |-> {}, outcome |-> "none"]

\* The orders in which a descriptor map can hold its server names.
RECURSIVE distinctSeqs(_)
distinctSeqs(S) ==
    {<<>>} \cup UNION {{<<s>> \o q : q \in distinctSeqs(S \ {s})} : s \in S}

\* A descriptor: the server it names, and whether resolveEnvValue finds a value
\* for every entry of its env map (an entry that is a ${env:NAME} marker names a
\* variable the process environment holds).
Descriptor(s, r) == [server |-> s, envResolved |-> r]

\* The descriptor maps initialize can be given: distinct server names, in any
\* order, each with an env map that resolves or not.
descriptorMaps ==
    UNION {{[i \in 1..Len(q) |-> Descriptor(q[i], r[i])] : r \in [1..Len(q) -> BOOLEAN]}
           : q \in distinctSeqs(Servers)}

\* The scan of callTool: the first key of this.tools, in insertion order, whose
\* catalog holds the name; 0 when none does.
\* The scan of callTool keeping the last match instead of returning at the first.
RECURSIVE findServerLast(_, _)
findServerLast(order, name) ==
    IF order = <<>> THEN 0
    ELSE IF name \in tools[order[Len(order)]] THEN order[Len(order)]
    ELSE findServerLast(SubSeq(order, 1, Len(order) - 1), name)

RECURSIVE findServer(_, _)
findServer(order, name) ==
    IF order = <<>> THEN 0
    ELSE IF name \in tools[Head(order)] THEN Head(order)
    ELSE findServer(Tail(order), name)

hasKey(order, s) == \E i \in 1..Len(order) : order[i] = s

\* Map.set keeps the place of a key the map already holds.
mapSetOrder(order, s) == IF hasKey(order, s) THEN order ELSE Append(order, s)

\* connectToServer without the check of the resolved value: an unresolved marker
\* is handed to the transport as it is.
connectOutcomesNoEnvCheck(d) ==
    {"ok", "connectFail", "discoveryFail"}

\* The outcomes of connectToServer on a descriptor. The second variant resolves
\* the env map first and throws on a marker it cannot resolve; the first hands
\* the env map to the transport as it is.
connectOutcomes(d) ==
    IF variant = "abort" /\ ~d.envResolved
    THEN {"envUnresolved"}
    ELSE {"ok", "connectFail", "discoveryFail"}

\* initialize: entered with a descriptor map.
initialize ==
    /\ tmPc = "idle"
    /\ \E descs \in descriptorMaps :
         /\ initQueue' = descs
         /\ tmPc' = IF descs = <<>> THEN "idle" ELSE "init"
         /\ initOutcome' = IF descs = <<>> THEN "returned" ELSE "none"
    /\ initError' = "none"
    /\ lastCall' = NoCall
    /\ closeLog' = NoClose
    /\ UNCHANGED <<variant, advertises, clients, tools, toolsOrder, leaked, failedOpen,
                   memVars, agentVars, memLog, runVars, legacyVars, templateVars, gitVars, adapterVars>>

\* One turn of the loop of initialize: connectToServer on the next descriptor,
\* and the catch block around it.
connectToServer ==
    /\ tmPc = "init"
    /\ initQueue # <<>>
    /\ LET s == Head(initQueue).server IN
       \E out \in connectOutcomes(Head(initQueue)) :
         /\ IF out \in {"ok", "discoveryFail"}
            THEN /\ clients' = [clients EXCEPT ![s] = TRUE]
                 /\ leaked' = (leaked \/ clients[s])   \* the client it replaces stays open
            ELSE UNCHANGED <<clients, leaked>>
         /\ IF out = "ok"
            THEN /\ tools' = [tools EXCEPT ![s] = advertises[s]]
                 /\ toolsOrder' = mapSetOrder(toolsOrder, s)
            ELSE UNCHANGED <<tools, toolsOrder>>
         /\ failedOpen' = IF out = "ok" THEN failedOpen \ {s} ELSE failedOpen \cup {s}
         /\ IF out # "ok" /\ variant = "abort"
            THEN /\ initQueue' = <<>>
                 /\ tmPc' = "idle"
                 /\ initOutcome' = "raised"
                 /\ initError' = out
            ELSE /\ initQueue' = Tail(initQueue)
                 /\ initError' = initError
                 /\ tmPc' = IF Tail(initQueue) = <<>> THEN "idle" ELSE "init"
                 /\ initOutcome' = IF Tail(initQueue) = <<>> THEN "returned" ELSE "none"
    /\ lastCall' = NoCall
    /\ UNCHANGED <<variant, advertises, closeLog, memVars, agentVars, memLog, runVars, legacyVars, templateVars, gitVars, adapterVars>>

\* callTool without the throw that ends it: an unknown name returns undefined.
callToolNoThrow ==
    /\ tmPc = "idle"
    /\ \E name \in ToolNames :
         LET s == findServer(toolsOrder, name) IN
         IF s = 0
         THEN lastCall' = [name |-> name, server |-> 0, outcome |-> "result"]
         ELSE IF ~clients[s]
         THEN lastCall' = [name |-> name, server |-> s, outcome |-> "ClientNotFound"]
         ELSE \E out \in {"result", "toolError"} :
                 lastCall' = [name |-> name, server |-> s, outcome |-> out]
    /\ UNCHANGED <<variant, advertises, clients, tools, toolsOrder, leaked, failedOpen,
                   tmPc, initQueue, initOutcome, initError, closeLog, memVars, agentVars, memLog, runVars, legacyVars, templateVars, gitVars, adapterVars>>

\* callTool
callTool ==
    /\ tmPc = "idle"
    /\ \E name \in ToolNames :
         LET s == findServer(toolsOrder, name) IN
         IF s = 0
         THEN lastCall' = [name |-> name, server |-> 0, outcome |-> "ToolNotFound"]
         ELSE IF ~clients[s]
         THEN lastCall' = [name |-> name, server |-> s, outcome |-> "ClientNotFound"]
         ELSE \E out \in {"result", "toolError"} :
                 lastCall' = [name |-> name, server |-> s, outcome |-> out]
    /\ UNCHANGED <<variant, advertises, clients, tools, toolsOrder, leaked, failedOpen,
                   tmPc, initQueue, initOutcome, initError, closeLog, memVars, agentVars, memLog, runVars, legacyVars, templateVars, gitVars, adapterVars>>

\* cleanup without the try/catch around client.close(): the first close that
\* raises ends the loop, and the exception leaves cleanup before the maps are
\* cleared.
cleanupNoCatch ==
    /\ tmPc = "idle"
    /\ LET tracked == {s \in Servers : clients[s]} IN
       \E raised \in SUBSET tracked :
         IF raised = {}
         THEN /\ closeLog' = [attempted |-> tracked, raised |-> {}, outcome |-> "returned"]
              /\ clients' = [s \in Servers |-> FALSE]
              /\ tools' = [s \in Servers |-> {}]
              /\ toolsOrder' = <<>>
              /\ failedOpen' = {}
         ELSE /\ \E r \in raised, before \in SUBSET (tracked \ raised) :
                   closeLog' = [attempted |-> before \cup {r}, raised |-> {r},
                                outcome |-> "raised"]
              /\ UNCHANGED <<clients, tools, toolsOrder, failedOpen>>
    /\ lastCall' = NoCall
    /\ UNCHANGED <<variant, advertises, leaked, tmPc, initQueue, initOutcome, initError,
                   memVars, agentVars, memLog, runVars, legacyVars, templateVars, gitVars, adapterVars>>

\* cleanup: client.close() on every client of this.clients, each in its own
\* try/catch that logs; then both maps are cleared.
cleanup ==
    /\ tmPc = "idle"
    /\ LET tracked == {s \in Servers : clients[s]} IN
       \E raised \in SUBSET tracked :
         closeLog' = [attempted |-> tracked, raised |-> raised, outcome |-> "returned"]
    /\ clients' = [s \in Servers |-> FALSE]
    /\ tools' = [s \in Servers |-> {}]
    /\ toolsOrder' = <<>>
    /\ failedOpen' = {}
    /\ lastCall' = NoCall
    /\ UNCHANGED <<variant, advertises, leaked, tmPc, initQueue, initOutcome, initError,
                   memVars, agentVars, memLog, runVars, legacyVars, templateVars, gitVars, adapterVars>>

ToolsIdle ==
    /\ clients = [s \in Servers |-> FALSE]
    /\ tools = [s \in Servers |-> {}]
    /\ toolsOrder = <<>>
    /\ leaked = FALSE
    /\ failedOpen = {}
    /\ tmPc = "idle"
    /\ initQueue = <<>>
    /\ initOutcome = "none"
    /\ initError = "none"
    /\ lastCall = NoCall
    /\ closeLog = NoClose

ToolsInit ==
    /\ variant \in {"continue", "abort"}
    /\ advertises \in [Servers -> (SUBSET ToolNames) \ {{}}]   \* a server has a tool
    /\ ToolsIdle

\* -------------------------------------------------------------- entry point

\* The entry point is not running: the agent, the memory or the tools manager is
\* driven by another caller.
RunOff ==
    /\ runPc = "off"
    /\ runResult = NoResult.patches
    /\ setFailed = 0
    /\ outputs = {}

RunInit ==
    /\ runPc = "start"
    /\ runResult = NoResult.patches
    /\ setFailed = 0
    /\ outputs = {}

\* run, from its inputs to the configuration: the issue number is missing (throw),
\* or loadConfiguration raises, or the configuration is loaded.
loadConfiguration ==
    /\ runPc = "start"
    /\ \E ok \in BOOLEAN : runPc' = IF ok THEN "tools" ELSE "catch"
    /\ UNCHANGED <<runResult, setFailed, outputs, memVars, agentVars, toolVars, memLog, legacyVars, templateVars, gitVars, adapterVars>>

\* run: new ToolsManager(), and the call of initialize(config.mcpServers).
runInitialize ==
    /\ runPc = "tools"
    /\ initOutcome = "none"
    /\ initialize

\* run: initialize has returned (listTools follows, then the memory), or raised.
runInitialized ==
    /\ runPc = "tools"
    /\ tmPc = "idle"
    /\ initOutcome # "none"
    /\ runPc' = IF initOutcome = "returned" THEN "memory" ELSE "catch"
    /\ UNCHANGED <<runResult, setFailed, outputs, memVars, agentVars, toolVars, memLog, legacyVars, templateVars, gitVars, adapterVars>>

\* run: new GitHubMemoryManager(...), and the call of memory.loadMessages().
runLoadMessages ==
    /\ runPc = "memory"
    /\ memOp = NoOp
    /\ loadMessages

\* run: loadMessages has returned, or raised.
runLoaded ==
    /\ runPc = "memory"
    /\ memOp.op = "loadMessages"
    /\ runPc' = IF memOp.outcome = "returned" THEN "objective" ELSE "catch"
    /\ UNCHANGED <<runResult, setFailed, outputs, memVars, agentVars, toolVars, memLog, legacyVars, templateVars, gitVars, adapterVars>>

\* run: the objective, read from the prompt file or from issues.get; either raises
\* or returns.
runObjective ==
    /\ runPc = "objective"
    /\ \E ok \in BOOLEAN : runPc' = IF ok THEN "agent" ELSE "catch"
    /\ UNCHANGED <<runResult, setFailed, outputs, memVars, agentVars, toolVars, memLog, legacyVars, templateVars, gitVars, adapterVars>>

\* run: await agent.run(objective), by the ways it ends: it raises, or it returns
\* an ExecutionResult whose patches are what generatePatches parsed. Then the test
\* result.patches.length > 0; the length of a parsed value that is no array is
\* whatever the value has under that name.
\* The ceilings of the safety checks: the patch count and the bytes of one
\* patch's content.
maxFiles == 25
maxFileSizeBytes == 50 * 1024

\* Buffer.byteLength of a patch's content: none, at the ceiling, one byte over.
ContentBytes == {0, maxFileSizeBytes, maxFileSizeBytes + 1}

\* result.patches with the content the model wrote into each patch
withContent(patches, bytes) ==
    [isArray |-> patches.isArray,
     items |-> [i \in 1..Len(patches.items) |->
                  [file |-> patches.items[i].file,
                   action |-> patches.items[i].action,
                   bytes |-> bytes[i]]]]

\* run handing every result to createPR, without the test of patches.length.
agentRunAlwaysPR ==
    /\ runPc = "agent"
    /\ \/ /\ runPc' = "catch"
          /\ UNCHANGED runResult
       \/ \E content \in PatchContents :
          \E bytes \in [1..Len(parsePatches(content).items) -> ContentBytes] :
            /\ runResult' = withContent(parsePatches(content), bytes)
            /\ runPc' = "pr"
    /\ UNCHANGED <<setFailed, outputs, memVars, agentVars, toolVars, memLog, legacyVars, templateVars, gitVars, adapterVars>>

agentRun ==
    /\ runPc = "agent"
    /\ \/ /\ runPc' = "catch"
          /\ UNCHANGED runResult
       \/ \E content \in PatchContents :
          \E bytes \in [1..Len(parsePatches(content).items) -> ContentBytes] :
            /\ runResult' = withContent(parsePatches(content), bytes)
            /\ IF parsePatches(content).isArray
               THEN runPc' = IF Len(parsePatches(content).items) > 0 THEN "pr" ELSE "noChanges"
               ELSE runPc' \in {"pr", "noChanges"}
    /\ UNCHANGED <<setFailed, outputs, memVars, agentVars, toolVars, memLog, legacyVars, templateVars, gitVars, adapterVars>>

\* run setting pr_number before createPR has returned.
runCreatePROutputsFirst ==
    /\ runPc = "pr"
    /\ \/ /\ runPc' = "cleanup"
          /\ outputs' = outputs \cup {"pr_number", "pr_url"}
       \/ /\ runPc' = "catch"
          /\ outputs' = outputs \cup {"pr_number"}
    /\ UNCHANGED <<runResult, setFailed, memVars, agentVars, toolVars, memLog, legacyVars, templateVars, gitVars, adapterVars>>

\* run: prManager.createPR returns the pull request, and both outputs are set; or
\* it raises.
runCreatePR ==
    /\ runPc = "pr"
    /\ \/ /\ runPc' = "cleanup"
          /\ outputs' = outputs \cup {"pr_number", "pr_url"}
       \/ /\ runPc' = "catch"
          /\ UNCHANGED outputs
    /\ UNCHANGED <<runResult, setFailed, memVars, agentVars, toolVars, memLog, legacyVars, templateVars, gitVars, adapterVars>>

\* run: no patch, the 'No Changes Required' message goes to the memory.
runNoChanges ==
    /\ runPc = "noChanges"
    /\ \E posted \in BOOLEAN :
         /\ addAIMessage("noChanges", 0, posted)
         /\ runPc' = IF posted THEN "cleanup" ELSE "catch"
    /\ UNCHANGED <<runResult, setFailed, outputs, agentVars, toolVars, memLog, legacyVars, templateVars, gitVars, adapterVars>>

\* run: the call of toolsManager.cleanup(), the last statement of the try block.
runCleanup ==
    /\ runPc = "cleanup"
    /\ closeLog = NoClose
    /\ cleanup

\* run: cleanup has returned, and run ends.
runCompleted ==
    /\ runPc = "cleanup"
    /\ closeLog # NoClose
    /\ runPc' = "done"
    /\ UNCHANGED <<runResult, setFailed, outputs, memVars, agentVars, toolVars, memLog, legacyVars, templateVars, gitVars, adapterVars>>

\* run: the catch block, core.setFailed(errorMessage), and run ends.
runCatch ==
    /\ runPc = "catch"
    /\ setFailed' = setFailed + 1
    /\ runPc' = "done"
    /\ UNCHANGED <<runResult, outputs, memVars, agentVars, toolVars, memLog, legacyVars, templateVars, gitVars, adapterVars>>

\* ------------------------------------------- the single-call run (index.ts)

NoInputs ==
    [token |-> "none", mode |-> "none", max_patch_files |-> "none",
     issue_number |-> "none", prompt |-> "none"]

NoOutputValues == [pr_number |-> "unset", applied |-> "unset"]

\* That run is not running.
LegacyOff ==
    /\ inputs = NoInputs
    /\ legacyPc = "off"
    /\ modelResp = <<>>
    /\ outputValues = NoOutputValues
    /\ platformOps = {}

\* The environment of one run: the token and the action's inputs.
LegacyInputs ==
    [token : {"dummy", "real"},
     mode : {"", "propose", "apply"},
     max_patch_files : {"", "0", "1", "25"},
     issue_number : {"", "1"},
     prompt : {"", "Test prompt"}]

LegacyInit ==
    /\ inputs \in LegacyInputs
    /\ legacyPc = "start"
    /\ modelResp = <<>>
    /\ outputValues = NoOutputValues
    /\ platformOps = {}

\* parseInt(text, 10) of an input: NaN for the empty input
parseInt(text) ==
    [nan |-> text = "",
     n |-> CASE text = "0" -> 0 [] text = "1" -> 1 [] text = "25" -> 25 [] OTHER -> 0]

\* length > limit, false when the limit is NaN
exceeds(length, limit) == ~limit.nan /\ length > limit.n

\* core.getInput('mode') || 'propose'
modeOf(in) == IF in.mode = "" THEN "propose" ELSE in.mode

\* the patch the run makes up under the dummy token (21 bytes of content)
DummyPatches == <<[file |-> 1, action |-> "create", bytes |-> 0]>>

\* what callModel can return as parsed.patches
ModelPatches ==
    UNION {[1..n -> [file : {1}, action : {"create"}, bytes : ContentBytes]] :
             n \in 0..MaxPatches}

\* modelResp.patches.find(p => p.content && byteLength(p.content) > 50 * 1024)
oversized(patches) == \E i \in 1..Len(patches) : patches[i].bytes > maxFileSizeBytes

\* the branch and commit calls of run, in its order
BranchOps ==
    <<"repos.listBranches", "git.getRef", "git.createTree", "git.createCommit",
      "git.updateRef">>

\* run reads its inputs: getInput('prompt', { required: true }) throws on a missing
\* prompt.
legacyGetInputs ==
    /\ legacyPc = "start"
    /\ legacyPc' = IF inputs.prompt = "" THEN "catch" ELSE "context"
    /\ UNCHANGED <<inputs, modelResp, outputValues, platformOps, memVars, agentVars,
                   toolVars, memLog, runVars, templateVars, gitVars, adapterVars>>

\* run: fetchIssue and fetchIssueComments when issue_number is given, each of
\* which can raise.
legacyFetchIssue ==
    /\ legacyPc = "context"
    /\ IF inputs.issue_number = ""
       THEN /\ legacyPc' = "model"
            /\ UNCHANGED platformOps
       ELSE \/ /\ platformOps' = platformOps \cup {"issues.get"}
               /\ legacyPc' = "catch"
            \/ /\ platformOps' = platformOps \cup {"issues.get", "issues.listComments"}
               /\ legacyPc' \in {"catch", "model"}
    /\ UNCHANGED <<inputs, modelResp, outputValues, memVars, agentVars, toolVars,
                   memLog, runVars, templateVars, gitVars, adapterVars>>

\* run: the made-up response under the dummy token, callModel otherwise.
legacyCallModel ==
    /\ legacyPc = "model"
    /\ IF inputs.token = "dummy"
       THEN /\ modelResp' = DummyPatches
            /\ legacyPc' = "checks"
       ELSE \/ /\ legacyPc' = "catch"
               /\ UNCHANGED modelResp
            \/ /\ modelResp' \in ModelPatches
               /\ legacyPc' = "checks"
    /\ UNCHANGED <<inputs, outputValues, platformOps, memVars, agentVars, toolVars,
                   memLog, runVars, templateVars, gitVars, adapterVars>>

\* run: the size check, the count check, the apply mode and the dummy token, each
\* of which ends the run; otherwise the run goes on to its branch.
legacyChecks ==
    /\ legacyPc = "checks"
    /\ IF oversized(modelResp) \/ exceeds(Len(modelResp), parseInt(inputs.max_patch_files))
       THEN /\ setFailed' = setFailed + 1
            /\ legacyPc' = "done"
            /\ UNCHANGED outputValues
       ELSE IF modeOf(inputs) = "apply"
       THEN /\ outputValues' = [outputValues EXCEPT !.applied = "true"]
            /\ legacyPc' = "done"
            /\ UNCHANGED setFailed
       ELSE IF inputs.token = "dummy"
       THEN /\ outputValues' = [pr_number |-> "0", applied |-> "false"]
            /\ legacyPc' = "done"
            /\ UNCHANGED setFailed
       ELSE /\ legacyPc' = "git"
            /\ UNCHANGED <<setFailed, outputValues>>
    /\ UNCHANGED <<inputs, modelResp, platformOps, runPc, runResult, outputs, memVars,
                   agentVars, toolVars, memLog, templateVars, gitVars, adapterVars>>

\* run: ensureProposalBranch, getRefSha, createTree, createCommit, updateRef; the
\* first of them that raises ends the sequence.
legacyCommit ==
    /\ legacyPc = "git"
    /\ \E k \in 1..Len(BranchOps), raised \in BOOLEAN :
         /\ k < Len(BranchOps) => raised
         /\ platformOps' = platformOps \cup {BranchOps[i] : i \in 1..k}
         /\ legacyPc' = IF raised THEN "catch" ELSE "pr"
    /\ UNCHANGED <<inputs, modelResp, outputValues, memVars, agentVars, toolVars,
                   memLog, runVars, templateVars, gitVars, adapterVars>>

\* run: pulls.list, then pulls.update of the open pull request or pulls.create,
\* and the two outputs.
legacyPullRequest ==
    /\ legacyPc = "pr"
    /\ \/ /\ platformOps' = platformOps \cup {"pulls.list"}
          /\ legacyPc' = "catch"
          /\ UNCHANGED outputValues
       \/ \E op \in {"pulls.update", "pulls.create"} :
            /\ platformOps' = platformOps \cup {"pulls.list", op}
            /\ \/ /\ legacyPc' = "catch"
                  /\ UNCHANGED outputValues
               \/ /\ legacyPc' = "done"
                  /\ outputValues' = [pr_number |-> "number", applied |-> "false"]
    /\ UNCHANGED <<inputs, modelResp, memVars, agentVars, toolVars, memLog, runVars,
                   templateVars, gitVars, adapterVars>>

\* run: the catch block, core.setFailed(err.message).
legacyCatch ==
    /\ legacyPc = "catch"
    /\ setFailed' = setFailed + 1
    /\ legacyPc' = "done"
    /\ UNCHANGED <<inputs, modelResp, outputValues, platformOps, runPc, runResult,
                   outputs, memVars, agentVars, toolVars, memLog, templateVars, gitVars, adapterVars>>

\* --------------------------------------------------- escapeTemplateSyntax

\* A text is a sequence of characters: the two braces and an ordinary character.
Alphabet == {"{", "}", "a"}
Texts == UNION {[1..n -> Alphabet] : n \in 0..MaxText}

RECURSIVE concat(_)
concat(parts) == IF parts = <<>> THEN <<>> ELSE Head(parts) \o concat(Tail(parts))

\* content.replace(/\{(?!\{)/g, '{{'): every { that no { follows is doubled
replaceOpen(t) ==
    concat([i \in 1..Len(t) |->
              IF t[i] = "{" /\ ~(i < Len(t) /\ t[i + 1] = "{")
              THEN <<"{", "{">> ELSE <<t[i]>>])

\* .replace(/(?<!\})\}/g, '}}'): every } that no } precedes is doubled
replaceClose(t) ==
    concat([i \in 1..Len(t) |->
              IF t[i] = "}" /\ ~(i > 1 /\ t[i - 1] = "}")
              THEN <<"}", "}">> ELSE <<t[i]>>])

escapeTemplateSyntax(t) == replaceClose(replaceOpen(t))

\* The prompt template made of a text and formatted with no input values
\* (ChatPromptTemplate.fromMessages, chain.invoke({})): {{ and }} stand for one
\* brace, { opens a variable name that runs to the next }, a single } or a {
\* without its } is a syntax error, and a variable has no value to take.
RECURSIVE formatFrom(_, _, _)
formatFrom(t, i, acc) ==
    IF i > Len(t) THEN [state |-> "text", text |-> acc]
    ELSE IF i < Len(t) /\ t[i] = "{" /\ t[i + 1] = "{"
    THEN formatFrom(t, i + 2, Append(acc, "{"))
    ELSE IF i < Len(t) /\ t[i] = "}" /\ t[i + 1] = "}"
    THEN formatFrom(t, i + 2, Append(acc, "}"))
    ELSE IF t[i] = "{"
    THEN IF \E j \in (i + 1)..Len(t) : t[j] = "}"
         THEN [state |-> "missingVariable", text |-> <<>>]
         ELSE [state |-> "syntaxError", text |-> <<>>]
    ELSE IF t[i] = "}"
    THEN [state |-> "syntaxError", text |-> <<>>]
    ELSE formatFrom(t, i + 1, Append(acc, t[i]))

format(t) == formatFrom(t, 1, <<>>)

\* No text is being escaped.
TemplateOff ==
    /\ rawText = <<>>
    /\ escapedText = <<>>
    /\ rendered = [state |-> "off", text |-> <<>>]

\* A text waits to be put into a prompt.
TemplateInit ==
    /\ rawText \in Texts
    /\ escapedText = <<>>
    /\ rendered = [state |-> "raw", text |-> <<>>]

\* The caller escapes the text for its prompt template.
escapeContent ==
    /\ rendered.state = "raw"
    /\ escapedText' = escapeTemplateSyntax(rawText)
    /\ rendered' = [state |-> "escaped", text |-> <<>>]
    /\ UNCHANGED <<rawText, memVars, agentVars, toolVars, memLog, runVars, legacyVars,
                   gitVars, adapterVars>>

\* The template of the escaped text is built and invoked with no input values.
invokeTemplate ==
    /\ rendered.state = "escaped"
    /\ rendered' = format(escapedText)
    /\ UNCHANGED <<rawText, escapedText, memVars, agentVars, toolVars, memLog, runVars,
                   legacyVars, gitVars, adapterVars>>

\* ------------------------------------------ the repository, GitService, PRManager

Paths == {1}
BranchIds == 0..MaxRuns

\* A patch: the file, the action, and whether it carries content.
GitPatches ==
    [file : Paths, action : {"create", "update", "delete"}, content : {"none", "text"}]
PatchLists == UNION {[1..n -> GitPatches] : n \in 0..MaxGitPatches}

NoFiles == [f \in Paths |-> "absent"]

\* No proposal flow is running.
GitOff ==
    /\ baseFiles = NoFiles
    /\ repoBranches = {}
    /\ branchFiles = [b \in BranchIds |-> NoFiles]
    /\ openPRs = [b \in BranchIds |-> 0]
    /\ gitPc = "off"
    /\ gitBranch = 0
    /\ gitPatches = <<>>
    /\ gitRuns = 0
    /\ applied = <<>>
    /\ linked = FALSE

\* The repository a flow finds: any base files, and no proposal branch or one
\* left by an earlier run, with or without its open pull request.
GitInit ==
    /\ baseFiles \in [Paths -> {"absent", "base"}]
    /\ repoBranches \in {{}, {0}}
    /\ branchFiles = [b \in BranchIds |-> IF b \in repoBranches THEN baseFiles ELSE NoFiles]
    /\ openPRs \in {[b \in BranchIds |-> IF b = 0 THEN n ELSE 0] :
                      n \in (IF repoBranches = {} THEN {0} ELSE {0, 1})}
    /\ gitPc = "idle"
    /\ gitBranch = 0
    /\ gitPatches = <<>>
    /\ gitRuns = 0
    /\ applied = <<>>
    /\ linked = FALSE

\* run of index.ts: modelResp.patches.map(p => ({ path: p.file, content: p.content || '' }))
treeItem(patch) ==
    [path |-> patch.file, content |-> IF patch.content = "text" THEN "text" ELSE "empty"]

\* createTree on base_tree: every item is a blob at its path, the last item of a
\* path wins, every other path keeps the base's file.
RECURSIVE treeOver(_, _)
treeOver(files, items) ==
    IF items = <<>> THEN files
    ELSE treeOver([files EXCEPT ![Head(items).path] = Head(items).content], Tail(items))

\* ensureBranch: the first branch whose name starts with 'pythagoras/proposal',
\* or a new name made of the time; run hands it the patches of the model.
ensureBranch ==
    /\ gitPc \in {"idle", "updated", "created"}
    /\ gitRuns < MaxRuns
    /\ gitRuns' = gitRuns + 1
    /\ \E patches \in PatchLists :
         /\ gitPatches' = patches
         /\ \/ /\ gitPc' = "idle"                        \* listBranches raised
               /\ UNCHANGED gitBranch
            \/ /\ gitPc' = "ensured"
               /\ gitBranch' = IF repoBranches # {}
                               THEN CHOOSE b \in repoBranches : \A c \in repoBranches : b <= c
                               ELSE gitRuns + 1
    /\ UNCHANGED <<baseFiles, repoBranches, branchFiles, openPRs, applied, linked, memVars,
                   agentVars, toolVars, memLog, runVars, legacyVars, templateVars,
                   adapterVars>>

\* commitPatches: the tree over the base, the commit, and the ref of the branch
\* moved to it (updateRef with force, or createRef); any of the calls can raise.
commitPatches ==
    /\ gitPc = "ensured"
    /\ \/ /\ gitPc' = "idle"
          /\ UNCHANGED <<repoBranches, branchFiles>>
       \/ /\ gitPc' = "committed"
          /\ repoBranches' = repoBranches \cup {gitBranch}
          /\ branchFiles' = [branchFiles EXCEPT ![gitBranch] =
                               treeOver(baseFiles, [i \in 1..Len(gitPatches) |->
                                                      treeItem(gitPatches[i])])]
    /\ UNCHANGED <<baseFiles, openPRs, gitBranch, gitPatches, gitRuns, applied, linked,
                   memVars, agentVars, toolVars, memLog, runVars, legacyVars, templateVars,
                   adapterVars>>

\* upsertPullRequest that never looks for the open pull request.
upsertAlwaysCreate ==
    /\ gitPc = "committed"
    /\ \/ /\ gitPc' = "idle"
          /\ UNCHANGED openPRs
       \/ /\ gitPc' = "created"
          /\ openPRs' = [openPRs EXCEPT ![gitBranch] = @ + 1]
    /\ UNCHANGED <<baseFiles, repoBranches, branchFiles, gitBranch, gitPatches, gitRuns,
                   applied, linked, memVars, agentVars, toolVars, memLog, runVars,
                   legacyVars, templateVars, adapterVars>>

\* upsertPullRequest: pulls.list of the open pull requests of the branch; the
\* first one is updated, or one is created; any of the calls can raise.
upsertPullRequest ==
    /\ gitPc = "committed"
    /\ \/ /\ gitPc' = "idle"
          /\ UNCHANGED openPRs
       \/ /\ openPRs[gitBranch] > 0
          /\ gitPc' = "updated"
          /\ UNCHANGED openPRs
       \/ /\ openPRs[gitBranch] = 0
          /\ gitPc' = "created"
          /\ openPRs' = [openPRs EXCEPT ![gitBranch] = @ + 1]
    /\ UNCHANGED <<baseFiles, repoBranches, branchFiles, gitBranch, gitPatches, gitRuns,
                   applied, linked, memVars, agentVars, toolVars, memLog, runVars,
                   legacyVars, templateVars, adapterVars>>

\* ------------------------------------------------------- PRManager.createPR

\* createPR up to its loop: the base ref is read and the branch, named by the
\* issue and the time, is created on it; either call can raise.
createPRBranch ==
    /\ gitPc \in {"idle", "failed", "returned"}
    /\ gitRuns < MaxRuns
    /\ gitRuns' = gitRuns + 1
    /\ applied' = <<>>
    /\ linked' = FALSE
    /\ \E patches \in PatchLists :
         /\ gitPatches' = patches
         /\ \/ /\ gitPc' = "failed"
               /\ gitBranch' = 0
               /\ UNCHANGED <<repoBranches, branchFiles>>
            \/ /\ gitPc' = "applying"
               /\ gitBranch' = gitRuns + 1
               /\ repoBranches' = repoBranches \cup {gitRuns + 1}
               /\ branchFiles' = [branchFiles EXCEPT ![gitRuns + 1] = baseFiles]
    /\ UNCHANGED <<baseFiles, openPRs, memVars, agentVars, toolVars, memLog, runVars,
                   legacyVars, templateVars, adapterVars>>

\* What applyPatch leaves at the path: deleteFile removes the file (a 404 is
\* skipped), createOrUpdateFile writes the content.
patched(files, patch) ==
    [files EXCEPT ![patch.file] = IF patch.action = "delete" THEN "absent" ELSE "text"]

\* applyPatch of the next patch of the loop: create and update without content
\* throw, the platform calls can raise, and an error leaves createPR.
applyPatch ==
    /\ gitPc = "applying"
    /\ Len(applied) < Len(gitPatches)
    /\ LET i == Len(applied) + 1
           patch == gitPatches[i]
       IN  IF patch.action # "delete" /\ patch.content = "none"
           THEN /\ gitPc' = "failed"
                /\ UNCHANGED <<applied, branchFiles>>
           ELSE \/ /\ gitPc' = "failed"
                   /\ UNCHANGED <<applied, branchFiles>>
                \/ /\ applied' = Append(applied, i)
                   /\ branchFiles' = [branchFiles EXCEPT ![gitBranch] = patched(@, patch)]
                   /\ UNCHANGED gitPc
    /\ UNCHANGED <<baseFiles, repoBranches, openPRs, gitBranch, gitPatches, gitRuns, linked,
                   memVars, agentVars, toolVars, memLog, runVars, legacyVars, templateVars,
                   adapterVars>>

\* pulls.create made while patches of the loop are still to be applied.
createPRPullEarly ==
    /\ gitPc = "applying"
    /\ \/ /\ gitPc' = "failed"
          /\ UNCHANGED openPRs
       \/ /\ gitPc' = "pr"
          /\ openPRs' = [openPRs EXCEPT ![gitBranch] = @ + 1]
    /\ UNCHANGED <<baseFiles, repoBranches, branchFiles, gitBranch, gitPatches, gitRuns,
                   applied, linked, memVars, agentVars, toolVars, memLog, runVars,
                   legacyVars, templateVars, adapterVars>>

\* createPR after its loop: pulls.create, which can raise.
createPRPull ==
    /\ gitPc = "applying"
    /\ Len(applied) = Len(gitPatches)
    /\ \/ /\ gitPc' = "failed"
          /\ UNCHANGED openPRs
       \/ /\ gitPc' = "pr"
          /\ openPRs' = [openPRs EXCEPT ![gitBranch] = @ + 1]
    /\ UNCHANGED <<baseFiles, repoBranches, branchFiles, gitBranch, gitPatches, gitRuns,
                   applied, linked, memVars, agentVars, toolVars, memLog, runVars,
                   legacyVars, templateVars, adapterVars>>

\* createPR's end: the comment that links the pull request on the issue, which
\* can raise, and the return.
createPRLink ==
    /\ gitPc = "pr"
    /\ \/ /\ gitPc' = "failed"
          /\ UNCHANGED linked
       \/ /\ gitPc' = "returned"
          /\ linked' = TRUE
    /\ UNCHANGED <<baseFiles, repoBranches, branchFiles, openPRs, gitBranch, gitPatches,
                   gitRuns, applied, memVars, agentVars, toolVars, memLog, runVars,
                   legacyVars, templateVars, adapterVars>>

\* ------------------------------- ToolsManager on MultiServerMCPClient

NoCatalog == [defined |-> FALSE, cat |-> {}]
NoAdapterCall == [op |-> "none", outcome |-> "none", cat |-> {}]

\* No such manager exists.
AdapterOff ==
    /\ adTools = NoCatalog
    /\ serverTools = {}
    /\ adQueries = 0
    /\ adLast = [op |-> "off", outcome |-> "none", cat |-> {}]

\* The constructor: this.tools is undefined.
AdapterInit ==
    /\ adTools = NoCatalog
    /\ serverTools \in SUBSET ToolNames
    /\ adQueries = 0
    /\ adLast = NoAdapterCall

\* initialize: initializeConnections is started and not awaited.
adapterInitialize ==
    /\ adLast.op # "off"
    /\ adLast' = [op |-> "initialize", outcome |-> "returned", cat |-> {}]
    /\ UNCHANGED <<adTools, serverTools, adQueries, memVars, agentVars, toolVars, memLog,
                   runVars, legacyVars, templateVars, gitVars>>

\* getTools asking the servers on every call.
adapterGetToolsNoCache ==
    /\ adLast.op # "off"
    /\ adQueries < MaxQueries
    /\ adQueries' = adQueries + 1
    /\ \/ /\ adLast' = [op |-> "getTools", outcome |-> "raised", cat |-> {}]
          /\ UNCHANGED adTools
       \/ /\ adTools' = [defined |-> TRUE, cat |-> serverTools]
          /\ adLast' = [op |-> "getTools", outcome |-> "returned", cat |-> serverTools]
    /\ UNCHANGED <<serverTools, memVars, agentVars, toolVars, memLog, runVars, legacyVars,
                   templateVars, gitVars>>

\* getTools: this.tools when it is defined; otherwise client.getTools(), whose
\* result is stored and returned, or whose error leaves this.tools undefined.
adapterGetTools ==
    /\ adLast.op # "off"
    /\ IF adTools.defined
       THEN /\ adLast' = [op |-> "getTools", outcome |-> "returned", cat |-> adTools.cat]
            /\ UNCHANGED <<adTools, adQueries>>
       ELSE /\ adQueries < MaxQueries
            /\ adQueries' = adQueries + 1
            /\ \/ /\ adLast' = [op |-> "getTools", outcome |-> "raised", cat |-> {}]
                  /\ UNCHANGED adTools
               \/ /\ adTools' = [defined |-> TRUE, cat |-> serverTools]
                  /\ adLast' = [op |-> "getTools", outcome |-> "returned", cat |-> serverTools]
    /\ UNCHANGED <<serverTools, memVars, agentVars, toolVars, memLog, runVars, legacyVars,
                   templateVars, gitVars>>

\* cleanup: client.close() is started, this.tools = undefined.
adapterCleanup ==
    /\ adLast.op # "off"
    /\ adTools' = NoCatalog
    /\ adLast' = [op |-> "cleanup", outcome |-> "returned", cat |-> {}]
    /\ UNCHANGED <<serverTools, adQueries, memVars, agentVars, toolVars, memLog, runVars,
                   legacyVars, templateVars, gitVars>>

\* The servers change what they offer.
serversChange ==
    /\ adLast.op # "off"
    /\ serverTools' \in (SUBSET ToolNames) \ {serverTools}
    /\ UNCHANGED <<adTools, adQueries, adLast, memVars, agentVars, toolVars, memLog,
                   runVars, legacyVars, templateVars, gitVars>>

\* ------------------------------------------------------------ specifications

\* The agent run, with no tool server configured.
InitAgent ==
    /\ AgentInit
    /\ GitOff
    /\ AdapterOff
    /\ tokenType = "User"
    /\ LegacyOff
    /\ TemplateOff
    /\ MemoryInit
    /\ comments = <<>>
    /\ RunOff
    /\ variant = "continue"
    /\ advertises = [s \in Servers |-> {}]
    /\ ToolsIdle

NextAgent ==
    \/ loadMessages
    \/ createPlanHistory
    \/ createPlanModel
    \/ createPlanSave
    \/ executeStep
    \/ executePlanRecord
    \/ executePlanCatch
    \/ generatePatches

SpecAgent == InitAgent /\ [][NextAgent]_vars

\* The tools manager, driven by its caller.
InitTools ==
    /\ AgentInit
    /\ GitOff
    /\ AdapterOff
    /\ tokenType = "User"
    /\ LegacyOff
    /\ TemplateOff
    /\ MemoryInit
    /\ comments = <<>>
    /\ ToolsInit
    /\ RunOff

NextTools ==
    \/ initialize
    \/ connectToServer
    \/ callTool
    \/ cleanup

SpecTools == InitTools /\ [][NextTools]_vars

\* One run of the entry point, from its start to its end.
InitRun ==
    /\ AgentInit
    /\ GitOff
    /\ AdapterOff
    /\ tokenType = "User"
    /\ LegacyOff
    /\ TemplateOff
    /\ MemoryInit
    /\ comments = <<>>
    /\ ToolsInit
    /\ RunInit

NextRun ==
    \/ loadConfiguration
    \/ runInitialize
    \/ connectToServer
    \/ runInitialized
    \/ runLoadMessages
    \/ runLoaded
    \/ runObjective
    \/ agentRun
    \/ runCreatePR
    \/ runNoChanges
    \/ runCleanup
    \/ runCompleted
    \/ runCatch

SpecRun == InitRun /\ [][NextRun]_vars

\* One single-call run, from its inputs to its end.
InitLegacy ==
    /\ AgentInit
    /\ GitOff
    /\ AdapterOff
    /\ tokenType = "User"
    /\ MemoryInit
    /\ comments = <<>>
    /\ variant = "continue"
    /\ advertises = [s \in Servers |-> {}]
    /\ ToolsIdle
    /\ RunOff
    /\ LegacyInit
    /\ TemplateOff

NextLegacy ==
    \/ legacyGetInputs
    \/ legacyFetchIssue
    \/ legacyCallModel
    \/ legacyChecks
    \/ legacyCommit
    \/ legacyPullRequest
    \/ legacyCatch

SpecLegacy == InitLegacy /\ [][NextLegacy]_vars

\* A text on its way into a prompt template.
InitTemplate ==
    /\ AgentInit
    /\ GitOff
    /\ AdapterOff
    /\ tokenType = "User"
    /\ MemoryInit
    /\ comments = <<>>
    /\ variant = "continue"
    /\ advertises = [s \in Servers |-> {}]
    /\ ToolsIdle
    /\ RunOff
    /\ LegacyOff
    /\ TemplateInit

NextTemplate ==
    \/ escapeContent
    \/ invokeTemplate

SpecTemplate == InitTemplate /\ [][NextTemplate]_vars

\* Proposal flows of GitService, one after the other, on one repository.
InitGit ==
    /\ AgentInit
    /\ tokenType = "User"
    /\ MemoryInit
    /\ comments = <<>>
    /\ variant = "continue"
    /\ advertises = [s \in Servers |-> {}]
    /\ ToolsIdle
    /\ RunOff
    /\ LegacyOff
    /\ TemplateOff
    /\ AdapterOff
    /\ GitInit

NextGit ==
    \/ ensureBranch
    \/ commitPatches
    \/ upsertPullRequest

SpecGit == InitGit /\ [][NextGit]_vars

\* PRManager.createPR, called again and again on a repository without proposals.
InitPR ==
    /\ InitGit
    /\ repoBranches = {}

NextPR ==
    \/ createPRBranch
    \/ applyPatch
    \/ createPRPull
    \/ createPRLink

SpecPR == InitPR /\ [][NextPR]_vars

\* The manager on MultiServerMCPClient, driven by its caller, beside servers
\* that change what they offer.
InitAdapter ==
    /\ AgentInit
    /\ tokenType = "User"
    /\ MemoryInit
    /\ comments = <<>>
    /\ variant = "continue"
    /\ advertises = [s \in Servers |-> {}]
    /\ ToolsIdle
    /\ RunOff
    /\ LegacyOff
    /\ TemplateOff
    /\ GitOff
    /\ AdapterInit

NextAdapter ==
    \/ adapterInitialize
    \/ adapterGetTools
    \/ adapterCleanup
    \/ serversChange

SpecAdapter == InitAdapter /\ [][NextAdapter]_vars

\* The memory of an issue, driven by its owner through its public operations.
InitMemory ==
    /\ AgentInit
    /\ GitOff
    /\ AdapterOff
    /\ tokenType \in TokenTypes
    /\ LegacyOff
    /\ TemplateOff
    /\ MemoryInit
    /\ comments \in Threads
    /\ variant = "continue"
    /\ advertises = [s \in Servers |-> {}]
    /\ ToolsIdle
    /\ RunOff

NextMemory ==
    \/ loadMessages
    \/ getMessages
    \/ addMessage
    \/ clear

SpecMemory == InitMemory /\ [][NextMemory]_vars

\* ------------------------------------------------------------------ claims

\* C1: executePlan isolates a failing step: whenever the model call of some step
\* raised, executePlan returns (it does not raise), the result holds one StepResult
\* per step of the plan, and the model call of every step was attempted.
C1_FailureIsolation ==
    (exOutcome # "none" /\ agentPc = "done" /\ modelRaised # {}) =>
        /\ exOutcome = "returned"
        /\ Len(execResult.results) = Len(plan.steps)
        /\ attempted = 1..Len(plan.steps)

\* C2: the results executePlan returns have the length of plan.steps, and the
\* result at each position carries the step number of the step at that position.
C2_OneResultPerStep ==
    exOutcome = "returned" =>
        /\ Len(execResult.results) = Len(execResult.plan.steps)
        /\ \A i \in 1..Len(execResult.results) :
              i <= Len(execResult.plan.steps) =>
                 execResult.results[i].step = execResult.plan.steps[i].step

\* C3: every plan createPlan returns has at least one step.
C3_PlanNonEmpty ==
    cpOutcome = "returned" => Len(plan.steps) >= 1

\* C4: createPlan never raises, whatever its collaborators do.
C4_CreatePlanNeverRaises ==
    cpOutcome # "raised"

\* C5: a completion whose text (inside its code fence, if it has one) is no JSON
\* makes parsePlan return the one-step default plan: step 1, 'Manual intervention
\* required', not completed; nothing is raised by the parse.
C5_UnparsableGivesDefaultPlan ==
    planContent.body.kind \in {"garbage", "braceGarbage"} =>
        /\ raisedBy # "planRender"
        /\ Len(plan.steps) = 1
        /\ plan.steps[1].step = 1
        /\ plan.steps[1].action = "Manual intervention required"
        /\ plan.steps[1].completed = FALSE

C5_Witness ==
    /\ planContent.body.kind = "braceGarbage"
    /\ planContent.fenced
    /\ cpOutcome = "returned"
    /\ Len(plan.steps) = 1

\* C6: a patch completion that is no JSON makes generatePatches return the empty
\* patch list, and executePlan returns.
C6_UnparsablePatchesGiveEmptyList ==
    patchContent.kind = "garbage" =>
        /\ exOutcome = "returned"
        /\ execResult.returned
        /\ execResult.patches.isArray
        /\ execResult.patches.items = <<>>

C6_Witness ==
    /\ patchContent.kind = "garbage"
    /\ exOutcome = "returned"
    /\ Len(execResult.results) >= 1

\* C7: when the model call of generatePatches raises, executePlan still returns
\* the ExecutionResult, with every recorded StepResult and an empty patch list.
C7_PatchCallFailureDegrades ==
    (agentPc = "done" /\ cpOutcome = "returned" /\ raisedBy = "patchModel") =>
        /\ exOutcome = "returned"
        /\ execResult.results = results
        /\ execResult.patches.items = <<>>

\* C8: a callTool whose name no cached catalog holds ends in 'Tool not found', not
\* in a result, and leaves the clients and the catalogs as they were.
C8_UnknownToolRaises ==
    [][(lastCall' # NoCall /\ lastCall' # lastCall) =>
          ((\A s \in Servers : hasKey(toolsOrder, s) => lastCall'.name \notin tools[s]) =>
              /\ lastCall'.outcome = "ToolNotFound"
              /\ UNCHANGED <<clients, tools, toolsOrder, leaked>>)]_vars

C8_Witness ==
    /\ lastCall.outcome = "ToolNotFound"
    /\ toolsOrder # <<>>
    /\ \E s \in Servers : clients[s] /\ tools[s] # {}

\* The connected servers whose cached catalog holds the name.
advertisers(name) ==
    {s \in Servers : hasKey(toolsOrder, s) /\ clients[s] /\ name \in tools[s]}

\* s is the server registered first among those whose catalog holds the name.
firstRegistered(name, s) ==
    \E i \in 1..Len(toolsOrder) :
        /\ toolsOrder[i] = s
        /\ name \in tools[s]
        /\ \A j \in 1..(i - 1) : name \notin tools[toolsOrder[j]]

\* C9: when two or more connected servers advertise the name, callTool is
\* dispatched to the server registered first, never ends in another error than the
\* tool's own, and a second call of the same name goes to the same server.
C9_FirstRegisteredWins ==
    /\ []((lastCall # NoCall /\ Cardinality(advertisers(lastCall.name)) >= 2) =>
            /\ lastCall.outcome \in {"result", "toolError"}
            /\ firstRegistered(lastCall.name, lastCall.server))
    /\ [][(lastCall # NoCall /\ lastCall' # NoCall /\ lastCall'.name = lastCall.name) =>
            lastCall'.server = lastCall.server]_vars

C9_Witness ==
    /\ lastCall.outcome = "result"
    /\ Cardinality(advertisers(lastCall.name)) >= 2
    /\ toolsOrder[1] = 2
    /\ lastCall.server = 2

\* C10: a callTool of a name that only a server advertises whose connectToServer
\* raised (so that its session was never opened with a catalog) ends in 'Client not
\* found for server'.
C10_SessionUnavailable ==
    (/\ lastCall # NoCall
     /\ findServer(toolsOrder, lastCall.name) = 0
     /\ \E s \in failedOpen : lastCall.name \in advertises[s]) =>
        lastCall.outcome = "ClientNotFound"

\* The 'Client not found' branch of callTool is never taken: connectToServer sets
\* the client before the catalog, and cleanup clears both.
ClientNotFoundUnreachable ==
    /\ lastCall.outcome # "ClientNotFound"
    /\ \A s \in Servers : hasKey(toolsOrder, s) => clients[s]

\* C11: cleanup calls close on every client the manager holds, also when some of
\* the closes raise; it returns (the failure is not propagated), and after it the
\* manager holds no client and no catalog.
C11_CleanupClosesAll ==
    [][(closeLog' # closeLog /\ closeLog'.outcome # "none") =>
          /\ closeLog'.attempted = {s \in Servers : clients[s]}
          /\ closeLog'.outcome = "returned"
          /\ \A s \in Servers : ~clients'[s] /\ tools'[s] = {}
          /\ toolsOrder' = <<>>]_vars

C11_Witness ==
    /\ closeLog.outcome = "returned"
    /\ closeLog.raised # {}
    /\ closeLog.attempted \ closeLog.raised # {}
    /\ \A s \in Servers : ~clients[s] /\ tools[s] = {}

\* C12: when run has ended, on whichever path, the manager holds no client: every
\* session opened during the run was given to close.
C12_SessionsClosedAtEnd ==
    runPc = "done" => \A s \in Servers : ~clients[s]

\* C13: the manager never leaves a session open that this.clients no longer
\* holds: per server name there is at most the one session the map tracks, also
\* after initialize is called again with a name that already has a session.
C13_NoOrphanedSession ==
    ~leaked

\* C14: in the variant of connectToServer that resolves the env map, a descriptor
\* with an unresolved ${env:NAME} marker makes initialize raise the resolution
\* error to its caller, and no client and no catalog is stored for the descriptor.
C14_UnresolvedEnvFailsInitialize ==
    [][(tmPc = "init" /\ variant = "abort" /\ ~Head(initQueue).envResolved) =>
          /\ tmPc' = "idle"
          /\ initOutcome' = "raised"
          /\ initError' = "envUnresolved"
          /\ UNCHANGED <<clients, tools, toolsOrder>>]_vars

C14_Witness ==
    /\ variant = "abort"
    /\ initOutcome = "raised"
    /\ initError = "envUnresolved"
    /\ \E s \in failedOpen : ~clients[s] /\ ~hasKey(toolsOrder, s)
    /\ \E s \in Servers : clients[s]

\* C15: initialize logs a failure to connect to a server or to list its tools and
\* goes on with the next descriptor: such a failure is never raised to its caller.
C15_LogAndContinue ==
    initError \notin {"connectFail", "discoveryFail"}

C17_LoadIdempotent ==
    [][(memOp'.op = "loadMessages" /\ loads' = loads + 1 /\ memOp'.outcome = "returned"
        /\ messages = <<IssueMessage>> \o parseComments(comments)) =>
          messages' = messages]_vars

\* C18: when loadMessages was never called, the first getMessages that returns
\* gives a history that starts with the issue and holds the comments of the thread,
\* whatever was appended before it.
C18_FirstReadLoads ==
    [][(memOp'.op = "getMessages" /\ ~hasRead /\ hasRead' /\ loads = 0
        /\ memOp'.outcome = "returned") =>
          /\ messages' # <<>>
          /\ messages'[1] = IssueMessage
          /\ Len(messages') >= 1 + Len(comments)]_vars

\* C19: an addMessage that returns leaves this.messages as it was with the message
\* appended under the role it was given, and a getMessages after it returns that
\* sequence.
C19_AppendThenRead ==
    [][/\ (memOp'.op = "addMessage" /\ appends' = appends + 1) =>
             messages' = Append(messages, Msg(memOp'.arg, "appended", 0))
       /\ (memOp'.op = "getMessages" /\ memOp.op = "addMessage") =>
             /\ memOp'.outcome = "returned"
             /\ messages' = messages]_vars

C19_Witness ==
    /\ memOp.op = "getMessages"
    /\ memOp.outcome = "returned"
    /\ Len(messages) >= 2
    /\ messages[1] = IssueMessage
    /\ messages[Len(messages)] = Msg("ai", "appended", 0)

\* C20: this.messages only grows: every step of a public operation leaves the
\* earlier sequence as a prefix of the new one.
C20_AppendOnly ==
    [][/\ Len(messages') >= Len(messages)
       /\ SubSeq(messages', 1, Len(messages)) = messages]_vars

\* C21: this.messages is never ahead of the thread: every addMessage step that
\* leaves its message in this.messages leaves the comment of that message in the
\* thread, also when the post fails.
C21_MemoryNotAheadOfThread ==
    [][(memOp'.op = "addMessage" /\ appends' = appends + 1) =>
          /\ Len(comments') = Len(comments) + 1
          /\ comments'[Len(comments')] = postedComment(messages'[Len(messages')])]_vars

\* C22: a comment is classified agent (ai) exactly when its author type is 'Bot' or
\* its body begins with '[Pythagoras]' or with the robot emoji; every other comment,
\* an empty body included, is classified user (human). Stated for isBot on every
\* author type and body, and for the messages a loadMessages leaves.
C22_ClassifiedByAuthorOrToken ==
    /\ \A a \in AuthorTypes, m \in BodyMarkers :
          isBot(Comment(a, m)) <=> (a = "Bot" \/ m \in {"pythagoras", "robot"})
    /\ (memOp.op = "loadMessages" /\ memOp.outcome = "returned") =>
          \A i \in 1..Len(comments) :
             LET msg == messages[Len(messages) - Len(comments) + i] IN
             /\ msg.role \in {"ai", "human"}
             /\ (msg.role = "ai") <=> (comments[i].authorType = "Bot"
                                       \/ comments[i].marker \in {"pythagoras", "robot"})

C22_Witness ==
    /\ memOp.op = "loadMessages"
    /\ memOp.outcome = "returned"
    /\ comments = <<Comment("User", "robot"), Comment("User", "none")>>
    /\ messages = <<IssueMessage, Msg("ai", "comment", 0), Msg("human", "comment", 0)>>

\* C23: whenever run is about to hand result.patches to createPR (whose first
\* calls read the base ref and create the branch), no patch's content is larger
\* than the byte ceiling and the patches are no more than the count ceiling.
C23_SafetyGate ==
    runPc = "pr" =>
       /\ \A i \in 1..Len(runResult.items) : runResult.items[i].bytes <= maxFileSizeBytes
       /\ Len(runResult.items) <= maxFiles

\* The branch, commit and pull-request calls of the hosting platform.
BranchCommitPullOps ==
    {BranchOps[i] : i \in 1..Len(BranchOps)} \cup {"pulls.list", "pulls.update", "pulls.create"}

\* C24: under the dummy token and mode 'propose', called with its required prompt
\* and a max_patch_files that admits one patch, run ends without a call of
\* setFailed, with pr_number '0' and applied 'false', and without any branch,
\* commit or pull-request call on the hosting platform.
C24_DummyTokenRun ==
    (/\ legacyPc = "done"
     /\ inputs.token = "dummy"
     /\ modeOf(inputs) = "propose"
     /\ inputs.prompt # ""
     /\ ~exceeds(1, parseInt(inputs.max_patch_files)))
    => /\ setFailed = 0
       /\ outputValues = [pr_number |-> "0", applied |-> "false"]
       /\ platformOps \cap BranchCommitPullOps = {}

\* C25: the plan in the ExecutionResult is the plan createPlan returned and run
\* passed to executePlan: same steps in the same order, same step numbers, actions
\* and reasoning, same completed flags, whichever steps succeeded or failed.
C25_PlanImmutable ==
    execResult.returned =>
       /\ execResult.plan = parsePlan(planContent)
       /\ plan = parsePlan(planContent)

C25_Witness ==
    /\ execResult.returned
    /\ Len(execResult.plan.steps) = 2
    /\ ~execResult.plan.steps[1].completed
    /\ Len(execResult.results) = 2
    /\ execResult.results[1].success
    /\ ~execResult.results[2].success

\* C26: in every plan createPlan returned, the step numbers are 1, 2, 3, ... in
\* sequence position, whatever step numbers the completion held.
C26_StepIndicesDense ==
    cpOutcome = "returned" =>
       \A i \in 1..Len(plan.steps) : plan.steps[i].step = i

\* The entries run itself gave to the memory, in their order.
agentEntries ==
    SelectSeq(messages, LAMBDA m : m.kind \in {"plan", "stepDone", "stepFailed"})

\* C27: when run has returned for a plan of N steps, the memory received exactly
\* N + 1 entries from it: the plan summary first, then one status entry per step
\* in step order.
C27_OneEntryPerStep ==
    execResult.returned =>
       /\ Len(agentEntries) = Len(plan.steps) + 1
       /\ agentEntries[1].kind = "plan"
       /\ \A i \in 1..Len(plan.steps) :
             /\ agentEntries[i + 1].kind \in {"stepDone", "stepFailed"}
             /\ agentEntries[i + 1].step = plan.steps[i].step

\* C28: the calls of one run are sequential. No step's model call is made before
\* createPlan returned; whenever the loop stands before position k (the model call
\* of step k, or the patch synthesis after the last step), the model calls of
\* exactly the positions before k have been made and their results and memory
\* entries are recorded; the patch synthesis has run only after every step.
C28_StrictlySequential ==
    /\ attempted # {} => cpOutcome = "returned"
    /\ agentPc \in {"idle", "cp_model", "cp_save"} => attempted = {} /\ results = <<>>
    /\ agentPc = "ex_step" =>
          /\ attempted = 1..(stepIdx - 1)
          /\ Len(results) >= stepIdx - 1
          /\ Len(agentEntries) >= stepIdx
    /\ agentPc \in {"ex_mem", "ex_catch"} =>
          /\ attempted = 1..stepIdx
          /\ Len(results) >= stepIdx
    /\ (exOutcome = "returned" \/ raisedBy = "patchModel") =>
          /\ attempted = 1..Len(plan.steps)
          /\ Len(results) >= Len(plan.steps)
          /\ Len(agentEntries) >= Len(plan.steps) + 1

C28_Witness ==
    /\ agentPc = "ex_step"
    /\ Len(plan.steps) = 2
    /\ stepIdx = 2
    /\ attempted = {1}
    /\ Len(results) = 1
    /\ Len(agentEntries) = 2

\* C30: every StepResult recorded has one of the two shapes (success with the
\* response text and no error, or failure with the empty output and the error
\* message), and success is true exactly when the step's model call returned: the
\* successful results are as many as the model calls that returned, the failed
\* results as many as the model calls that raised.
C30_StepResultShapes ==
    /\ \A i \in 1..Len(results) :
          IF results[i].success
          THEN results[i].output = "response" /\ results[i].error = ""
          ELSE results[i].output = "" /\ results[i].error # ""
    /\ successCount(results) = Cardinality(attempted \ modelRaised)
    /\ Len(results) - successCount(results) = Cardinality(modelRaised)

\* C29: for every text over braces and ordinary characters, the template of the
\* escaped text, formatted with no input values, gives exactly the text: never a
\* syntax error, never a variable, never another text.
C29_EscapeRoundTrip ==
    rendered.state \notin {"raw", "escaped"} => rendered = [state |-> "text", text |-> rawText]

\* C31: a result with an empty patch list never reaches createPR and sets no
\* pull-request output; run appends the 'No Changes Required' message instead and,
\* once that message is posted, ends without a call of setFailed. createPR is
\* reached only with a non-empty patch list.
C31_EmptyResultIsNoOp ==
    /\ (runPc = "pr" /\ runResult.isArray) => Len(runResult.items) > 0
    /\ (runResult.isArray /\ runResult.items = <<>>) => "pr_number" \notin outputs
    /\ (runPc = "noChanges" /\ runResult.isArray) => runResult.items = <<>>
    /\ (runPc \in {"cleanup", "done"} /\ setFailed = 0
          /\ runResult.isArray /\ runResult.items = <<>>) =>
          /\ Len(messages) > 0
          /\ messages[Len(messages)].kind = "noChanges"
          /\ Len(comments) > 0
          /\ comments[Len(comments)] = postedComment(Msg("ai", "noChanges", 0))
    /\ (Len(comments) > 0 /\ comments[Len(comments)] = postedComment(Msg("ai", "noChanges", 0))
          /\ Len(messages) > 0 /\ messages[Len(messages)].kind = "noChanges") =>
          /\ runPc \in {"cleanup", "done"}
          /\ setFailed = 0
          /\ outputs = {}

C31_Witness ==
    /\ runPc = "done"
    /\ setFailed = 0
    /\ outputs = {}
    /\ runResult = [isArray |-> TRUE, items |-> <<>>]
    /\ Len(messages) > 0
    /\ messages[Len(messages)].kind = "noChanges"

\* C33: an append to the memory that fails after a step, in the try block or in
\* the catch block of executePlan, adds no StepResult and does not end the loop:
\* executePlan goes on to the next position with the results it had.
C33_AppendFailureIsolated ==
    [][(/\ agentPc \in {"ex_mem", "ex_catch"}
        /\ Len(messages') = Len(messages) + 1
        /\ comments' = comments)
       => (/\ results' = results
           /\ raisedBy' = raisedBy
           /\ agentPc' = "ex_step"
           /\ stepIdx' = stepIdx + 1)]_vars

\* C34: in every state the servers that have a cached catalog are the servers that
\* have a tracked session; a server whose connect succeeded and whose listTools
\* failed has neither.
C34_CatalogSessionConsistent ==
    {s \in Servers : hasKey(toolsOrder, s)} = {s \in Servers : clients[s]}

\* C36: run never lets an error out: an error of configuration loading, tool
\* initialization, memory loading, the agent or the pull-request creation takes run
\* to its catch block, which reports it through setFailed once and ends the run;
\* setFailed is called at most once, and a run that called it set no pr_number.
C36_ErrorsReportedOnce ==
    /\ setFailed <= 1
    /\ runPc = "catch" => (setFailed = 0 /\ "pr_number" \notin outputs)
    /\ setFailed = 1 => (runPc = "done" /\ "pr_number" \notin outputs)
    /\ (runPc = "done" /\ (initOutcome = "raised" \/ memOp.outcome = "raised")) => setFailed = 1
    /\ (runPc = "done" /\ setFailed = 0) => closeLog # NoClose

C36_Witness ==
    /\ runPc = "done"
    /\ setFailed = 1
    /\ initOutcome = "returned"
    /\ memOp.outcome = "returned"
    /\ runResult.items # <<>>

\* C39: the role of a message survives the thread: the comment an addAIMessage
\* posted is classified ai by the loadMessages of a manager that reads the thread,
\* and the comment an addUserMessage posted is classified human.
C39_RolePreserved ==
    [][(memOp'.op = "addMessage" /\ memOp'.outcome = "returned"
        /\ Len(comments') = Len(comments) + 1)
       => parseComments(comments')[Len(comments')].role = memOp'.arg]_vars

\* C35: the cached catalog is stable from the first getTools that returned until
\* cleanup: while this.tools stays defined it keeps its value and the servers are
\* not asked again, a getTools made then returns it, and a getTools that raised
\* has left this.tools undefined.
C35_CatalogStable ==
    /\ []((adLast.op = "getTools" /\ adLast.outcome = "returned") =>
            (adTools.defined /\ adLast.cat = adTools.cat))
    /\ []((adLast.op = "getTools" /\ adLast.outcome = "raised") => ~adTools.defined)
    /\ [][(adTools.defined /\ adTools'.defined) =>
            (adTools' = adTools /\ adQueries' = adQueries)]_vars
    /\ [][(adTools.defined /\ ~adTools'.defined) => adLast'.op = "cleanup"]_vars

C35_Witness ==
    /\ adTools.defined
    /\ adTools.cat # serverTools
    /\ adLast = [op |-> "getTools", outcome |-> "returned", cat |-> adTools.cat]
    /\ adQueries = 1

C32_PatchesAppliedByAction ==
    gitPc = "committed" =>
       \A i \in 1..Len(gitPatches) :
          (\A j \in (i + 1)..Len(gitPatches) : gitPatches[j].file # gitPatches[i].file) =>
             IF gitPatches[i].action = "delete"
             THEN branchFiles[gitBranch][gitPatches[i].file] = "absent"
             ELSE gitPatches[i].content = "text" =>
                     branchFiles[gitBranch][gitPatches[i].file] = "text"

\* C37: createPR applies the patches in list order and creates the pull request
\* only when every one of them is applied; when applying a patch failed, a create
\* or update without content included, the branch of the call has no pull request
\* and the issue no linking comment.
C37_PROnlyAfterAllPatches ==
    gitPc \in {"applying", "pr", "failed", "returned"} =>
       /\ applied = [i \in 1..Len(applied) |-> i]
       /\ Len(applied) <= Len(gitPatches)
       /\ openPRs[gitBranch] > 0 => Len(applied) = Len(gitPatches)
       /\ linked => openPRs[gitBranch] = 1
       /\ Len(applied) < Len(gitPatches) => (openPRs[gitBranch] = 0 /\ ~linked)
       /\ (\E i \in 1..Len(gitPatches) :
              gitPatches[i].action # "delete" /\ gitPatches[i].content = "none") =>
             (openPRs[gitBranch] = 0 /\ ~linked /\ gitPc \notin {"pr", "returned"})
       /\ gitPc \in {"pr", "returned"} => openPRs[gitBranch] = 1
       /\ gitPc = "returned" => linked

C37_Witness ==
    /\ gitPc = "failed"
    /\ Len(gitPatches) = 2
    /\ applied = <<1>>
    /\ gitPatches[2].action = "update"
    /\ gitPatches[2].content = "none"
    /\ branchFiles[gitBranch][gitPatches[1].file] = "text"
    /\ openPRs[gitBranch] = 0
    /\ ~linked

====
